---- MODULE Spec2Model ----
(***************************************************************************)
(* A model of RadixConverter (src/src/RadixConverter.ts).                  *)
(*                                                                         *)
(* A JavaScript string is modelled as a sequence of one-character strings  *)
(* ("ab" is <<"a", "b">>), so that indexOf, startsWith, slice, spread and  *)
(* concatenation are computed on characters.  A numeral is such a string,  *)
(* the numeral list a sequence of them.  A number is an integer; the one   *)
(* non-finite argument of fromDecimal that the model draws is NaN.         *)
(***************************************************************************)
EXTENDS Integers, Sequences, FiniteSets, TLC

VARIABLES
    conv,       \* conv[i]: the RadixConverter held in slot i (live = FALSE: none yet)
    built,      \* built[i]: a copy of conv[i] taken as its constructor returned
    fn,         \* the function last returned by convertInto / convertFrom
    last        \* the last call: its operation, arguments and outcome

vars == <<conv, built, fn, last>>

(***************************************************************************)
(* Bounds of the model.                                                    *)
(***************************************************************************)
MaxNumerals == 3    \* longest numeral list handed to the constructor
MaxStrLen == 2      \* longest string handed to the constructor
MaxInputLen == 3    \* longest string handed to intoDecimal or a converter function
MaxNum == 9         \* largest number handed to fromDecimal
MaxNeg == 2         \* fromDecimal is handed numbers down to -MaxNeg

Chars == {"a", "b"}

StrUpTo(n) == UNION {[1..k -> Chars] : k \in 0..n}

\* The numerals the constructor is handed: the empty string and these.
Tokens == {<<>>, <<"a">>, <<"b">>, <<"a", "a">>, <<"a", "b">>,
           <<"a", "b", "a">>, <<"a", "b", "b">>}

NumeralLists == UNION {[1..k -> Tokens] : k \in 0..MaxNumerals}

Slots == {1, 2}

(***************************************************************************)
(* JavaScript string and array primitives.                                 *)
(***************************************************************************)
Range(s) == {s[k] : k \in 1..Len(s)}

\* str.startsWith(prefix); for a non-empty prefix also str.indexOf(prefix) === 0
startsWith(str, prefix) ==
    /\ Len(prefix) <= Len(str)
    /\ SubSeq(str, 1, Len(prefix)) = prefix

\* str.slice(n)
slice(str, n) == SubSeq(str, n + 1, Len(str))

\* [...str]: one element per character
spread(str) == [k \in 1..Len(str) |-> <<str[k]>>]

\* "" + undefined
Undefined == <<"u", "n", "d", "e", "f", "i", "n", "e", "d">>

\* a % b of JavaScript for b > 0: the sign of the dividend
JsRem(a, b) == IF a >= 0 THEN a % b ELSE 0 - ((0 - a) % b)

\* Math.floor(a / b) for b > 0
FloorDiv(a, b) == IF a >= 0 THEN a \div b ELSE 0 - (((0 - a) + b - 1) \div b)

RECURSIVE Pow(_, _)
Pow(b, e) == IF e = 0 THEN 1 ELSE b * Pow(b, e - 1)

RECURSIVE Join(_)
Join(tokens) == IF tokens = <<>> THEN <<>> ELSE Head(tokens) \o Join(Tail(tokens))

\* arr.splice(i, 1) on a copy: the list without its i-th element (1-based)
Without(arr, i) == [k \in 1..(Len(arr) - 1) |-> IF k < i THEN arr[k] ELSE arr[k + 1]]

(***************************************************************************)
(* Outcomes of a call.                                                     *)
(***************************************************************************)
NoInstance ==
    [live |-> FALSE, radix |-> 0, numerals |-> <<>>,
     numeralValues |-> [t \in {} |-> 0],
     orderedIsNull |-> TRUE, orderedNumerals |-> <<>>]

\* kind: "ok", "TypeError", "SyntaxError", "RangeError" or "diverges"
Outcome(kind, str, num, inst) == [kind |-> kind, str |-> str, num |-> num, inst |-> inst]

Throw(kind) == Outcome(kind, <<>>, 0, NoInstance)
ReturnStr(s) == Outcome("ok", s, 0, NoInstance)
ReturnNum(n) == Outcome("ok", <<>>, n, NoInstance)
ReturnInst(S) == Outcome("ok", <<>>, 0, S)
\* the call never returns: its loop does not exit
Diverges == Outcome("diverges", <<>>, 0, NoInstance)

(***************************************************************************)
(* The constructor.                                                        *)
(***************************************************************************)
\* validate without its else-if branch: what is left of a numeral is not
\* compared with the beginnings of the other numerals
RECURSIVE validate_NoElse(_, _, _, _)
validate_NoElse(str, originalStr, testStrs, k) ==
    IF k > Len(testStrs) THEN FALSE
    ELSE LET testStr == testStrs[k] IN
         IF startsWith(str, testStr)
         THEN LET substr == slice(str, Len(testStr)) IN
              IF substr = <<>> THEN TRUE
              ELSE \/ validate_NoElse(substr, originalStr, testStrs, 1)
                   \/ validate_NoElse(str, originalStr, testStrs, k + 1)
         ELSE validate_NoElse(str, originalStr, testStrs, k + 1)

\* validate(str, originalStr, testStrs) of #validateNumerals, from the k-th
\* element of testStrs on: TRUE iff it throws (always a TypeError).  The call
\* the loop makes on substr returns before the loop goes on to k + 1.
RECURSIVE validate(_, _, _, _)
validate(str, originalStr, testStrs, k) ==
    IF k > Len(testStrs) THEN FALSE
    ELSE LET testStr == testStrs[k] IN
         IF startsWith(str, testStr)
         THEN LET substr == slice(str, Len(testStr)) IN
              IF substr = <<>> THEN TRUE
              ELSE \/ validate(substr, originalStr, testStrs, 1)
                   \/ validate(str, originalStr, testStrs, k + 1)
         ELSE IF str # originalStr /\ startsWith(testStr, str) THEN TRUE
         ELSE validate(str, originalStr, testStrs, k + 1)

\* #validateNumerals() taking every copy of a numeral out of the list it
\* tests the numeral against (a.filter(x => x !== e) for the splice)
validateNumerals_Filter(numerals) ==
    \E i \in 1..Len(numerals) :
        validate(numerals[i], numerals[i],
                 SelectSeq(numerals, LAMBDA t : t # numerals[i]), 1)

\* #validateNumerals(): TRUE iff it throws for this.numerals = numerals
validateNumerals(numerals) ==
    \E i \in 1..Len(numerals) :
        validate(numerals[i], numerals[i], Without(numerals, i), 1)

\* numerals.concat().sort((a, b) => b.length - a.length): the sort is stable
RECURSIVE sortByLength(_, _)
sortByLength(numerals, len) ==
    IF len = 0 THEN <<>>
    ELSE SelectSeq(numerals, LAMBDA t : Len(t) = len) \o sortByLength(numerals, len - 1)

MaxLength(numerals) ==
    IF numerals = <<>> THEN 0
    ELSE CHOOSE n \in {Len(numerals[k]) : k \in 1..Len(numerals)} :
             \A k \in 1..Len(numerals) : Len(numerals[k]) <= n

\* the sort with its comparison the other way round (a.length - b.length)
RECURSIVE sortByLengthAscending(_, _, _)
sortByLengthAscending(numerals, len, max) ==
    IF len > max THEN <<>>
    ELSE SelectSeq(numerals, LAMBDA t : Len(t) = len)
            \o sortByLengthAscending(numerals, len + 1, max)

orderedNumeralsOf_Ascending(numerals) ==
    sortByLengthAscending(numerals, 1, MaxLength(numerals))

orderedNumeralsOf(numerals) == sortByLength(numerals, MaxLength(numerals))

\* numeralValues counting from 1 (set(e, i + 1))
numeralValuesOf_FromOne(numerals) ==
    [t \in Range(numerals) |->
        CHOOSE i \in 1..Len(numerals) :
            /\ numerals[i] = t
            /\ \A j \in (i + 1)..Len(numerals) : numerals[j] # t]

\* this.numerals.forEach((e, i) => this.numeralValues.set(e, i)): a later
\* set of the same key replaces the earlier one
numeralValuesOf(numerals) ==
    [t \in Range(numerals) |->
        (CHOOSE i \in 1..Len(numerals) :
            /\ numerals[i] = t
            /\ \A j \in (i + 1)..Len(numerals) : numerals[j] # t) - 1]

\* lines 67-74: the radix check and the fields set after it
finishConstruction(numerals, orderedIsNull, ordered) ==
    IF Len(numerals) <= 1 THEN Throw("RangeError")
    ELSE ReturnInst([live |-> TRUE, radix |-> Len(numerals), numerals |-> numerals,
                     numeralValues |-> numeralValuesOf(numerals),
                     orderedIsNull |-> orderedIsNull, orderedNumerals |-> ordered])

\* new RadixConverter(numerals, validateArg) for an array of strings
constructFromArray(numerals, validateArg) ==
    IF \E k \in 1..Len(numerals) : numerals[k] = <<>> THEN Throw("TypeError")
    ELSE IF validateArg /\ validateNumerals(numerals) THEN Throw("TypeError")
    ELSE finishConstruction(numerals, FALSE, orderedNumeralsOf(numerals))

\* new RadixConverter(str, validateArg) for a string: the numerals are the
\* characters of "" + str[0], and str[0] of the empty string is undefined
constructFromString(str, validateArg) ==
    LET numerals == spread(IF str = <<>> THEN Undefined ELSE <<str[1]>>) IN
    IF validateArg /\ Cardinality(Range(numerals)) # Len(numerals)
    THEN Throw("SyntaxError")
    ELSE finishConstruction(numerals, TRUE, <<>>)

(***************************************************************************)
(* fromDecimal, intoDecimal and the converter functions.                   *)
(***************************************************************************)
\* this.numerals[i]: undefined outside 0..length-1, and undefined + result
\* is "undefined" + result
numeralAt(S, i) ==
    IF i \in 0..(Len(S.numerals) - 1) THEN S.numerals[i + 1] ELSE Undefined

\* the loop putting each numeral after the result (result + numeral)
RECURSIVE fromDecimalLoop_Append(_, _, _)
fromDecimalLoop_Append(S, d, result) ==
    LET result2 == result \o numeralAt(S, JsRem(d, S.radix))
        d2 == FloorDiv(d, S.radix)
    IN  IF d2 = 0 THEN ReturnStr(result2)
        ELSE IF d2 = d THEN Diverges
        ELSE fromDecimalLoop_Append(S, d2, result2)

\* The do-while loop of fromDecimal, entered with d and result.  The exit
\* test reads d alone: an iteration that leaves a non-zero d as it was is
\* followed by the same iteration for ever, and the call does not return.
RECURSIVE fromDecimalLoop(_, _, _)
fromDecimalLoop(S, d, result) ==
    LET result2 == numeralAt(S, JsRem(d, S.radix)) \o result
        d2 == FloorDiv(d, S.radix)
    IN  IF d2 = 0 THEN ReturnStr(result2)
        ELSE IF d2 = d THEN Diverges
        ELSE fromDecimalLoop(S, d2, result2)

\* fromDecimal(num); num is [finite, val]: an integer, or NaN
fromDecimal(S, num) ==
    IF ~num.finite THEN Throw("RangeError")
    ELSE fromDecimalLoop(S, num.val, <<>>)

\* the loop going on one character further where no numeral matches,
\* instead of throwing
RECURSIVE splitLoop_Skip(_, _, _)
splitLoop_Skip(ordered, substr, result) ==
    IF Len(substr) = 0 THEN [threw |-> FALSE, tokens |-> result]
    ELSE LET hits == {k \in 1..Len(ordered) : startsWith(substr, ordered[k])} IN
         IF hits = {} THEN splitLoop_Skip(ordered, slice(substr, 1), result)
         ELSE LET numeral == ordered[CHOOSE k \in hits : \A h \in hits : k <= h] IN
              splitLoop_Skip(ordered, slice(substr, Len(numeral)), Append(result, numeral))

\* The while loop of #splitNum from substr on, with the tokens found so far
RECURSIVE splitLoop(_, _, _)
splitLoop(ordered, substr, result) ==
    IF Len(substr) = 0 THEN [threw |-> FALSE, tokens |-> result]
    ELSE LET hits == {k \in 1..Len(ordered) : startsWith(substr, ordered[k])} IN
         IF hits = {} THEN [threw |-> TRUE, tokens |-> result]
         ELSE LET numeral == ordered[CHOOSE k \in hits : \A h \in hits : k <= h] IN
              splitLoop(ordered, slice(substr, Len(numeral)), Append(result, numeral))

\* #splitNum(num)
splitNum(S, num) ==
    IF S.orderedIsNull THEN [threw |-> FALSE, tokens |-> spread(num)]
    ELSE splitLoop(S.orderedNumerals, num, <<>>)

RECURSIVE SumTo(_, _)
SumTo(f, n) == IF n = 0 THEN 0 ELSE SumTo(f, n - 1) + f[n]

\* intoDecimal(num)
intoDecimal(S, num) ==
    IF num = <<>> THEN ReturnNum(0)
    ELSE LET sp == splitNum(S, num)
             a == sp.tokens
         IN  IF sp.threw THEN Throw("SyntaxError")
             ELSE IF \E i \in 1..Len(a) : a[i] \notin DOMAIN S.numeralValues
             THEN Throw("SyntaxError")
             ELSE ReturnNum(SumTo([i \in 1..Len(a) |->
                      S.numeralValues[a[i]] * Pow(S.radix, Len(a) - i)], Len(a)))

\* the function encoding with the source instance (this.fromDecimal)
convertIntoFn_This(this, converter, num) ==
    LET dec == intoDecimal(this, num) IN
    IF dec.kind # "ok" THEN dec
    ELSE fromDecimal(this, [finite |-> TRUE, val |-> dec.num])

\* num => converter.fromDecimal(this.intoDecimal(num)), the function
\* this.convertInto(converter) returns, applied to num
convertIntoFn(this, converter, num) ==
    LET dec == intoDecimal(this, num) IN
    IF dec.kind # "ok" THEN dec
    ELSE fromDecimal(converter, [finite |-> TRUE, val |-> dec.num])

(***************************************************************************)
(* The state machine: a caller that constructs converters and calls them.  *)
(***************************************************************************)
NaN == [finite |-> FALSE, val |-> 0]
Finite(n) == [finite |-> TRUE, val |-> n]

NoFn == [live |-> FALSE, src |-> 1, dst |-> 1]

\* The record of a call.  op: "none", "new", "fromDecimal", "intoDecimal",
\* "convertInto", "convertFrom" or "apply" (a call of fn); mode: "array" or
\* "string", the kind of the constructor's first argument.
Call(op, slot, other, mode, numerals, str, validateArg, num, out) ==
    [op |-> op, slot |-> slot, other |-> other, mode |-> mode,
     numerals |-> numerals, str |-> str, validateArg |-> validateArg,
     num |-> num, out |-> out]

NoCall == Call("none", 1, 1, "array", <<>>, <<>>, TRUE, NaN, Throw("none"))

\* The caller's script ends at a constructor that threw: it has no
\* instance to go on with.
Running == ~(last.op = "new" /\ last.out.kind # "ok")

Init ==
    /\ conv = [i \in Slots |-> NoInstance]
    /\ built = [i \in Slots |-> NoInstance]
    /\ fn = NoFn
    /\ last = NoCall

\* What a constructor call leaves behind: the instance in slot i when it
\* returned one, nothing when it threw.
Constructed(i, out) ==
    IF out.kind = "ok"
    THEN /\ conv' = [conv EXCEPT ![i] = out.inst]
         /\ built' = [built EXCEPT ![i] = out.inst]
    ELSE UNCHANGED <<conv, built>>

\* conv[i] = new RadixConverter(numerals, validateArg), numerals an array
NewFromArray(i, numerals, validateArg) ==
    /\ Running
    /\ ~conv[i].live
    /\ LET out == constructFromArray(numerals, validateArg) IN
       /\ Constructed(i, out)
       /\ last' = Call("new", i, i, "array", numerals, <<>>, validateArg, NaN, out)
    /\ UNCHANGED fn

\* conv[i] = new RadixConverter(str, validateArg), str a string
NewFromString(i, str, validateArg) ==
    /\ Running
    /\ ~conv[i].live
    /\ LET out == constructFromString(str, validateArg) IN
       /\ Constructed(i, out)
       /\ last' = Call("new", i, i, "string", <<>>, str, validateArg, NaN, out)
    /\ UNCHANGED fn

\* conv[i].fromDecimal(num)
FromDecimal(i, num) ==
    /\ conv[i].live
    /\ last' = Call("fromDecimal", i, i, "array", <<>>, <<>>, TRUE, num,
                    fromDecimal(conv[i], num))
    /\ UNCHANGED <<conv, built, fn>>

\* intoDecimal sorting this.numerals itself by length, not a copy of it
IntoDecimal_SortInPlace(i, str) ==
    /\ conv[i].live
    /\ last' = Call("intoDecimal", i, i, "array", <<>>, str, TRUE, NaN,
                    intoDecimal(conv[i], str))
    /\ conv' = [conv EXCEPT ![i].numerals = orderedNumeralsOf(conv[i].numerals)]
    /\ UNCHANGED <<built, fn>>

\* conv[i].intoDecimal(str)
IntoDecimal(i, str) ==
    /\ conv[i].live
    /\ last' = Call("intoDecimal", i, i, "array", <<>>, str, TRUE, NaN,
                    intoDecimal(conv[i], str))
    /\ UNCHANGED <<conv, built, fn>>

\* fn = conv[i].convertInto(conv[j]): the function keeps both references
ConvertInto(i, j) ==
    /\ conv[i].live /\ conv[j].live
    /\ fn' = [live |-> TRUE, src |-> i, dst |-> j]
    /\ last' = Call("convertInto", i, j, "array", <<>>, <<>>, TRUE, NaN, Throw("none"))
    /\ UNCHANGED <<conv, built>>

\* fn = conv[i].convertFrom(conv[j]), which is conv[j].convertInto(conv[i])
ConvertFrom(i, j) ==
    /\ conv[i].live /\ conv[j].live
    /\ fn' = [live |-> TRUE, src |-> j, dst |-> i]
    /\ last' = Call("convertFrom", i, j, "array", <<>>, <<>>, TRUE, NaN, Throw("none"))
    /\ UNCHANGED <<conv, built>>

\* fn(str)
Apply(str) ==
    /\ fn.live
    /\ last' = Call("apply", fn.src, fn.dst, "array", <<>>, str, TRUE, NaN,
                    convertIntoFn(conv[fn.src], conv[fn.dst], str))
    /\ UNCHANGED <<conv, built, fn>>

Numbers == {Finite(n) : n \in (0 - MaxNeg)..MaxNum} \cup {NaN}

\* One converter, built from any of the numeral lists and strings.
Next ==
    \/ \E numerals \in NumeralLists, v \in BOOLEAN : NewFromArray(1, numerals, v)
    \/ \E str \in StrUpTo(MaxStrLen), v \in BOOLEAN : NewFromString(1, str, v)
    \/ \E num \in Numbers : FromDecimal(1, num)
    \/ \E str \in StrUpTo(MaxInputLen) : IntoDecimal(1, str)

Spec == Init /\ [][Next]_vars

\* Two converters and the functions between them.  The numeral lists:
\* radix 2 and radix 3, one- and two-character numerals, one list with a
\* numeral that is a prefix of another, and one that validation refuses.
PairLists ==
    {<<<<"a">>, <<"b">>>>,
     <<<<"a">>, <<"a", "b">>>>,
     <<<<"a">>, <<"b", "a">>, <<"b", "b">>>>,
     <<<<"b", "b">>, <<"b">>, <<"a">>>>}

NextPair ==
    \/ \E i \in Slots, numerals \in PairLists, v \in BOOLEAN :
           NewFromArray(i, numerals, v)
    \/ \E i \in Slots, str \in StrUpTo(MaxStrLen), v \in BOOLEAN :
           NewFromString(i, str, v)
    \/ \E i \in Slots, num \in Numbers : FromDecimal(i, num)
    \/ \E i \in Slots, str \in StrUpTo(MaxInputLen) : IntoDecimal(i, str)
    \/ \E i, j \in Slots : ConvertInto(i, j)
    \/ \E i, j \in Slots : ConvertFrom(i, j)
    \/ \E str \in StrUpTo(MaxInputLen) : Apply(str)

PairSpec == Init /\ [][NextPair]_vars

(***************************************************************************)
(* Notions the properties are stated with.                                 *)
(***************************************************************************)
\* S is an instance the constructor returns when called with validation on
ReturnedWithValidation(S) ==
    IF S.orderedIsNull
    THEN \E str \in StrUpTo(MaxStrLen) : constructFromString(str, TRUE) = ReturnInst(S)
    ELSE constructFromArray(S.numerals, TRUE) = ReturnInst(S)

\* What is left of str after taking zero or more elements of T off its front
RECURSIVE Remainders(_, _)
Remainders(str, T) ==
    {str} \cup UNION {Remainders(slice(str, Len(t)), T) :
                         t \in {u \in T : u # <<>> /\ startsWith(str, u)}}

\* str is a concatenation of numerals
IsConcatenation(str, numerals) == <<>> \in Remainders(str, Range(numerals))

HasDuplicate(numerals) ==
    \E i, j \in 1..Len(numerals) : i # j /\ numerals[i] = numerals[j]

HasPrefixPair(numerals) ==
    \E i, j \in 1..Len(numerals) :
        i # j /\ numerals[i] # numerals[j] /\ startsWith(numerals[j], numerals[i])

\* Some numeral starts with one or more of the other numerals, and what is
\* left of it after them is empty or the beginning of another numeral.
Conflict(numerals) ==
    \E i \in 1..Len(numerals) :
        LET others == Range(Without(numerals, i)) IN
        \E r \in Remainders(numerals[i], others) \ {numerals[i]} :
            r = <<>> \/ \E t \in others : startsWith(t, r)

NoEmptyNumeral(numerals) == \A k \in 1..Len(numerals) : numerals[k] # <<>>

Distinct(str) == \A i, j \in 1..Len(str) : i # j => str[i] # str[j]

\* radix == numerals.length == numeralValues.size, numeralValues the inverse
\* of numerals
WellFormed(S) ==
    /\ S.radix = Len(S.numerals)
    /\ Cardinality(DOMAIN S.numeralValues) = S.radix
    /\ \A k \in 1..Len(S.numerals) : S.numeralValues[S.numerals[k]] = k - 1

\* the number of base-r digits of n >= 0, and its digit of weight r^p
NumDigits(n, r) ==
    CHOOSE k \in 1..(n + 1) : Pow(r, k) > n /\ (k > 1 => Pow(r, k - 1) <= n)

DigitAt(n, r, p) == (n \div Pow(r, p)) % r

\* the sequences of indices into S.numerals that spell str
Spellings(S, str) ==
    {ids \in UNION {[1..L -> 1..S.radix] : L \in 0..Len(str)} :
        Join([i \in 1..Len(ids) |-> S.numerals[ids[i]]]) = str}

(***************************************************************************)
(* C1.  A string of k >= 2 pairwise distinct characters constructs an      *)
(* instance of radix k whose i-th numeral is the i-th character and whose  *)
(* numeralValues maps each character to its index.                         *)
(***************************************************************************)
C1_StringConstruction ==
    (last.op = "new" /\ last.mode = "string"
        /\ Len(last.str) >= 2 /\ Distinct(last.str))
    => /\ last.out.kind = "ok"
       /\ last.out.inst.radix = Len(last.str)
       /\ last.out.inst.numerals = spread(last.str)
       /\ WellFormed(last.out.inst)

(***************************************************************************)
(* C2.  Round trip: for an instance S returned with validation on and an   *)
(* integer n >= 0, S.intoDecimal(S.fromDecimal(n)) == n.                   *)
(***************************************************************************)
C2_RoundTrip ==
    (last.op = "fromDecimal" /\ last.num.finite /\ last.num.val >= 0
        /\ ReturnedWithValidation(conv[last.slot]))
    => /\ last.out.kind = "ok"
       /\ intoDecimal(conv[last.slot], last.out.str) = ReturnNum(last.num.val)

\* C2, a case of it: a number of three digits or more was encoded by an
\* instance returned with validation on, one of whose numerals is the
\* beginning of another
C2_Witness ==
    /\ last.op = "fromDecimal" /\ last.num.finite
    /\ last.num.val >= conv[last.slot].radix * conv[last.slot].radix
    /\ ReturnedWithValidation(conv[last.slot])
    /\ HasPrefixPair(conv[last.slot].numerals)
    /\ last.out.kind = "ok"

(***************************************************************************)
(* C3.  As claimed: with validation on, a numeral list with two identical  *)
(* numerals, or with a numeral that is a prefix of a different one, is     *)
(* refused with a TypeError; with validation off a list of two or more     *)
(* non-empty numerals is accepted.                                         *)
(***************************************************************************)
C3_PrefixPairRefused ==
    (last.op = "new" /\ last.mode = "array")
    => /\ (last.validateArg
             /\ (HasDuplicate(last.numerals) \/ HasPrefixPair(last.numerals)))
          => last.out.kind = "TypeError"
       /\ (~last.validateArg /\ Len(last.numerals) >= 2
             /\ NoEmptyNumeral(last.numerals))
          => last.out.kind = "ok"

(***************************************************************************)
(* C3, amended.  A list with an empty numeral is refused with a TypeError. *)
(* With validation on, a list of non-empty numerals is refused with a      *)
(* TypeError exactly when some numeral starts with one or more of the      *)
(* other numerals and what is left after them is empty or the beginning of *)
(* another numeral; two identical numerals are such a case, a numeral that *)
(* is merely a prefix of another is not.  With validation off a list of    *)
(* two or more non-empty numerals is accepted as it is.                    *)
(***************************************************************************)
C3_ConflictRefused ==
    (last.op = "new" /\ last.mode = "array")
    => IF ~NoEmptyNumeral(last.numerals) THEN last.out.kind = "TypeError"
       ELSE /\ last.validateArg
               => /\ (last.out.kind = "TypeError") <=> Conflict(last.numerals)
                  /\ HasDuplicate(last.numerals) => last.out.kind = "TypeError"
            /\ (~last.validateArg /\ Len(last.numerals) >= 2)
               => /\ last.out.kind = "ok"
                  /\ last.out.inst.numerals = last.numerals

\* C3, a case of it: a list of distinct numerals was refused with
\* validation on
C3_Witness ==
    /\ last.op = "new" /\ last.mode = "array" /\ last.validateArg
    /\ NoEmptyNumeral(last.numerals)
    /\ ~HasDuplicate(last.numerals)
    /\ HasPrefixPair(last.numerals)
    /\ last.out.kind = "TypeError"

(***************************************************************************)
(* C4.  As claimed: every instance the constructor returns, with           *)
(* validation on or off, has radix == numerals.length ==                   *)
(* numeralValues.size, numeralValues being the inverse of numerals.        *)
(***************************************************************************)
C4_EveryInstanceWellFormed ==
    (last.op = "new" /\ last.out.kind = "ok") => WellFormed(last.out.inst)

(***************************************************************************)
(* C4, amended.  Every instance the constructor returns with validation on *)
(* has radix == numerals.length == numeralValues.size, numeralValues being *)
(* the inverse of numerals; one returned with validation off has radix ==  *)
(* numerals.length >= 2, and numeralValues maps each numeral to the last   *)
(* index that holds it.                                                    *)
(***************************************************************************)
C4_ValidatedInstanceWellFormed ==
    (last.op = "new" /\ last.out.kind = "ok")
    => LET S == last.out.inst IN
       /\ last.validateArg => WellFormed(S)
       /\ S.radix = Len(S.numerals) /\ S.radix >= 2
       /\ DOMAIN S.numeralValues = Range(S.numerals)
       /\ \A t \in DOMAIN S.numeralValues :
             /\ S.numeralValues[t] \in 0..(S.radix - 1)
             /\ S.numerals[S.numeralValues[t] + 1] = t
             /\ \A k \in 1..Len(S.numerals) :
                   S.numerals[k] = t => k - 1 <= S.numeralValues[t]

\* C4, a case of it: the constructor returned, with validation on, an
\* instance of three numerals of which one is the beginning of another
C4_Witness ==
    /\ last.op = "new" /\ last.mode = "array" /\ last.validateArg
    /\ last.out.kind = "ok"
    /\ last.out.inst.radix = 3
    /\ HasPrefixPair(last.out.inst.numerals)

(***************************************************************************)
(* C5.  fromDecimal returns a string for every finite integer: zero,       *)
(* positive and negative.                                                  *)
(***************************************************************************)
C5_FromDecimalReturns ==
    (last.op = "fromDecimal" /\ last.num.finite) => last.out.kind = "ok"

(***************************************************************************)
(* C6.  intoDecimal of a non-empty string that is not a concatenation of   *)
(* the instance's numerals throws a SyntaxError and returns no number,     *)
(* wherever in the string the offending part is.                           *)
(***************************************************************************)
C6_DecodeErrors ==
    (last.op = "intoDecimal" /\ last.str # <<>>
        /\ ~IsConcatenation(last.str, conv[last.slot].numerals))
    => last.out = Throw("SyntaxError")

\* C6, a case of it: the string starts with two or more numerals and ends
\* with what is none
C6_Witness ==
    /\ last.op = "intoDecimal"
    /\ ~conv[last.slot].orderedIsNull
    /\ ~IsConcatenation(last.str, conv[last.slot].numerals)
    /\ \E k \in 2..(Len(last.str) - 1) :
          /\ IsConcatenation(SubSeq(last.str, 1, k), conv[last.slot].numerals)
          /\ SubSeq(last.str, 1, k) \notin Range(conv[last.slot].numerals)
    /\ last.out.kind = "SyntaxError"

(***************************************************************************)
(* C7.  For instances A and C returned with validation on and a string a   *)
(* that is a concatenation of A's numerals, every call of the function     *)
(* A.convertInto(C) on a returns r with C.intoDecimal(r) ==                *)
(* A.intoDecimal(a).                                                       *)
(***************************************************************************)
C7_ConversionKeepsValue ==
    (last.op = "apply"
        /\ ReturnedWithValidation(conv[last.slot])
        /\ ReturnedWithValidation(conv[last.other])
        /\ IsConcatenation(last.str, conv[last.slot].numerals))
    => /\ last.out.kind = "ok"
       /\ intoDecimal(conv[last.slot], last.str).kind = "ok"
       /\ intoDecimal(conv[last.other], last.out.str)
             = intoDecimal(conv[last.slot], last.str)

\* C7, a case of it: a string of three characters was converted from
\* radix 2 to radix 3, into three characters or more
C7_Witness ==
    /\ last.op = "apply" /\ last.slot # last.other
    /\ ReturnedWithValidation(conv[last.slot])
    /\ ReturnedWithValidation(conv[last.other])
    /\ conv[last.slot].radix = 2 /\ conv[last.other].radix = 3
    /\ IsConcatenation(last.str, conv[last.slot].numerals)
    /\ Len(last.str) >= 3
    /\ last.out.kind = "ok" /\ Len(last.out.str) >= 3

(***************************************************************************)
(* C8.  For every instance and every integer n >= 0, fromDecimal(n) is the *)
(* concatenation, most significant first, of the numerals of the           *)
(* base-radix digits of n: never empty, numerals[0] alone for n = 0, and   *)
(* without a leading zero digit for n >= 1.                                *)
(***************************************************************************)
C8_CanonicalEncoding ==
    (last.op = "fromDecimal" /\ last.num.finite /\ last.num.val >= 0)
    => LET S == conv[last.slot]
           n == last.num.val
           k == NumDigits(n, S.radix)
           digits == [i \in 1..k |-> DigitAt(n, S.radix, k - i)]
       IN  /\ last.out.kind = "ok"
           /\ last.out.str = Join([i \in 1..k |-> S.numerals[digits[i] + 1]])
           /\ last.out.str # <<>>
           /\ n = 0 => last.out.str = S.numerals[1]
           /\ n >= 1 => digits[1] # 0

\* C8, a case of it: a number of three digits or more, the last of them
\* zero, was encoded with three distinct numerals, one of them longer than
\* a character
C8_Witness ==
    /\ last.op = "fromDecimal" /\ last.num.finite
    /\ last.num.val >= conv[last.slot].radix * conv[last.slot].radix
    /\ last.num.val % conv[last.slot].radix = 0
    /\ conv[last.slot].radix = 3
    /\ ~HasDuplicate(conv[last.slot].numerals)
    /\ \E k \in 1..3 : Len(conv[last.slot].numerals[k]) >= 2
    /\ last.out.kind = "ok"

(***************************************************************************)
(* C9.  For a numeral-list instance returned with validation on and a      *)
(* sequence t_1..t_L of its numerals, L >= 0, intoDecimal of t_1 + ... +   *)
(* t_L splits it into exactly t_1..t_L and returns the sum of              *)
(* value(t_i) * radix^(L-i); for L = 0 that is 0.                          *)
(***************************************************************************)
C9_GreedyDecoding ==
    (last.op = "intoDecimal" /\ ~conv[last.slot].orderedIsNull
        /\ ReturnedWithValidation(conv[last.slot]))
    => LET S == conv[last.slot] IN
       \A ids \in Spellings(S, last.str) :
          LET L == Len(ids) IN
          /\ splitNum(S, last.str)
                = [threw |-> FALSE, tokens |-> [i \in 1..L |-> S.numerals[ids[i]]]]
          /\ last.out = ReturnNum(SumTo([i \in 1..L |->
                            (ids[i] - 1) * Pow(S.radix, L - i)], L))

\* C9, a case of it: a string of two or more numerals that begins with the
\* zero digit was decoded, one of its numerals being the beginning of a
\* longer numeral
C9_Witness ==
    /\ last.op = "intoDecimal" /\ ~conv[last.slot].orderedIsNull
    /\ ReturnedWithValidation(conv[last.slot])
    /\ \E ids \in Spellings(conv[last.slot], last.str) :
          /\ Len(ids) >= 2 /\ ids[1] = 1
          /\ \E i \in 1..Len(ids), k \in 1..conv[last.slot].radix :
                /\ k # ids[i]
                /\ startsWith(conv[last.slot].numerals[k],
                              conv[last.slot].numerals[ids[i]])
    /\ last.out.kind = "ok" /\ last.out.num >= 1

(***************************************************************************)
(* C10.  After any sequence of fromDecimal, intoDecimal, convertInto and   *)
(* convertFrom calls, and of calls of the functions these return, an       *)
(* instance's radix, numerals, numeralValues and length-ordered numerals   *)
(* are what they were when its constructor returned, so that a call gives  *)
(* the outcome it gives on the instance as constructed.                    *)
(***************************************************************************)
C10_Immutable ==
    /\ \A i \in Slots : conv[i] = built[i]
    /\ last.op = "fromDecimal" => last.out = fromDecimal(built[last.slot], last.num)
    /\ last.op = "intoDecimal" => last.out = intoDecimal(built[last.slot], last.str)
    /\ last.op = "apply"
          => last.out = convertIntoFn(built[last.slot], built[last.other], last.str)

\* C10, a case of it: a function from one instance to a different one has
\* thrown
C10_Witness ==
    /\ last.op = "apply" /\ last.slot # last.other
    /\ last.out.kind = "SyntaxError"
    /\ conv[1].live /\ conv[2].live /\ conv[1] # conv[2]

====
